---------------------------- MODULE Spec2Model ----------------------------
(***************************************************************************)
(* Ali-932/haruneko, python_client: the retrying request wrapper           *)
(* (_request_with_retry, in collect_chapter_patterns.py and in             *)
(* test_mangalek.py), the paginated crawl built on it (get_all_manga), the *)
(* chapter-title patterns (test_pattern.py, debug_chapters.py) and the     *)
(* loops that drive them (collect_from_source, run_test).                  *)
(*                                                                         *)
(* Specifications:                                                         *)
(*   Spec       one invocation of _request_with_retry, of either class,    *)
(*              with any max_retries and initial_delay in the bounds;      *)
(*   SpecLive   one invocation running on to its end (fairness), with one  *)
(*              failure per branch of the except clauses;                  *)
(*   SpecCrawl  one invocation of MangaLekChapterTester.get_all_manga,     *)
(*              every page fetched through the tester's _request_with_retry*)
(*              with its default arguments;                                *)
(*   SpecCrawlLive  SpecCrawl, the crawl running on to its end (fairness); *)
(*   SpecCancel SpecCrawl beside a caller that may signal cancellation;    *)
(*   SpecTwo    two interleaved invocations of _request_with_retry;        *)
(*   SpecParse  the pattern loop of test_pattern.py on one title;          *)
(*   SpecLookup the chapter lookup loop of test_pattern.py;                *)
(*   SpecDebug  the chapter search loop of debug_chapters.py;              *)
(*   SpecFetch  get_sources, search_manga, fetch_chapters of the collector;*)
(*   SpecRun    collect_from_source and run_test, with fairness;           *)
(*   SpecCollect  one call of collect_from_source on a collector that may  *)
(*              already hold entries, with any chapters_per_manga >= 0.    *)
(* Durations are whole seconds (2.0 and 3.0 in the source); the pacing     *)
(* sleep of 0.5 s is counted, not measured.                                *)
(***************************************************************************)
EXTENDS Integers, Sequences, FiniteSets, TLC

VARIABLES
    \* ---- _request_with_retry: arguments and locals
    impl,           \* which class's method runs: "collector" | "tester"
    max_retries,    \* argument max_retries
    initial_delay,  \* argument initial_delay
    attempt,        \* loop variable of `for attempt in range(max_retries)`
    delay,          \* local delay
    last_error,     \* local last_error
    rpc,            \* position: "idle" | "call" | "done"
    path,           \* branch the last attempt took:
                    \* "none" | "return" | "retry" | "exhausted" | "terminal" | "fallthrough"
    outcome,        \* what the invocation hands its caller
    \* ---- observation of one invocation
    calls,          \* number of times request_func was invoked
    slept,          \* the time.sleep durations, in order
    failed,         \* the failures request_func raised, in order
    \* ---- get_all_manga: argument and locals
    limit,          \* argument limit
    all_manga,      \* local all_manga
    page,           \* local page
    results,        \* local results (the last page received)
    fetched,        \* number of pages received
    cpc,            \* position: "idle" | "loop" | "fetch" | "return" | "done"
    exit,           \* how the while loop was left:
                    \* "none" | "limit" | "no_more" | "last_page" | "error"
    caught,         \* the exception caught by `except Exception as e`
    pacing,         \* number of time.sleep(0.5) calls
    ret,            \* the returned list
    crawl_error,    \* the exception get_all_manga raises to its caller
    \* ---- observation of one crawl
    log,            \* what the crawl did, in order: search_all_manga(n)
                    \* invoked ("fetch"), request_func() invoked for page n
                    \* ("call"), time.sleep(n) of a retry ("retry_sleep"),
                    \* time.sleep(0.5) ("pace")
    received,       \* the pages resp.json() delivered, in order
    \* ---- the caller's side of a crawl
    cancelled,      \* the caller has signalled cancellation
    \* ---- two invocations of _request_with_retry on one object
    inv,            \* per invocation: the object's class, the arguments,
                    \* the position, and what the invocation was seen to do
    frame,          \* per activation: the locals attempt, delay, last_error
    \* ---- test_pattern.py, first loop: one title
    title,          \* the title, a sequence of symbols
    parsed,         \* what the pattern loop printed for it
    ppc,            \* position: "idle" | "ready" | "done"
    \* ---- test_pattern.py, second loop: chapter lookups in a list of titles
    titles,         \* the list of titles
    lookups,        \* per requested chapter so far: the position of the
                    \* title reported FOUND (0: NOT FOUND)
    \* ---- debug_chapters.py: chapter search in a list of chapter records
    chapters,       \* the list service._get_chapters returned
    founds,         \* per search_num so far: the list `found`
    \* ---- ChapterPatternCollector: one fetch operation
    op,             \* "get_sources" | "search_manga" | "fetch_chapters"
    fetch_ret,      \* what the operation hands its caller
    fpc,            \* position: "idle" | "start" | "request" | "done"
    \* ---- collect_from_source and run_test: the loop over the items
    prog,           \* "none" | "collect" | "test"
    items,          \* manga_queries, or the list get_all_manga returned
    idx,            \* number of items the for loop has taken
    ipc,            \* position: "idle" | "start" | "for" | "search" |
                    \* "chapters" | "test" | "end"
    processed,      \* the items whose iteration began, in order
    happened,       \* how each iteration ended, in order
    tally,          \* collected_count, or self.results' counters
    chapters_per_manga, \* argument of collect_from_source
    manga,          \* local manga of collect_from_source (results[0])
    collected_data, \* self.collected_data
    prior_data,     \* self.collected_data as it was when the call began
    fetched_lists,  \* the chapter lists fetched for the entries appended
    run_ret,        \* what collect_from_source returned
    test_results,   \* self.results of the tester
    test_fetch,     \* how fetch_chapter_listing_html ended in the last test
    test_ret        \* what the last test_manga_chapters returned

retryVars == <<impl, max_retries, initial_delay, attempt, delay, last_error,
               rpc, path, outcome, calls, slept, failed>>
crawlVars == <<limit, all_manga, page, results, fetched, cpc, exit, caught,
               pacing, ret, crawl_error>>
crawlObs == <<log, received>>
\* what a crawl leaves alone
twoVars == <<inv, frame>>
parseVars == <<title, parsed, ppc>>
lookupVars == <<titles, lookups>>
debugVars == <<chapters, founds>>
fetchVars == <<op, fetch_ret, fpc>>
runVars == <<prog, items, idx, ipc, processed, happened, tally,
             chapters_per_manga, manga, collected_data, prior_data,
             fetched_lists, run_ret, test_results, test_fetch, test_ret>>
outsideCrawl == <<cancelled, twoVars, parseVars, lookupVars, debugVars,
                  fetchVars, runVars>>
vars == <<retryVars, crawlVars, crawlObs, outsideCrawl>>

\* what an invocation of _request_with_retry on its own leaves alone
outsideRetry == <<crawlVars, crawlObs, outsideCrawl>>

-----------------------------------------------------------------------------
(* Bounds of the model *)

\* largest max_retries an invocation is given under Spec
MaxRetries == 4
\* largest initial_delay (seconds) an invocation is given under Spec
MaxInitialDelay == 3
\* number of distinct entity ids the remote service can send
NumIds == 2
\* largest limit get_all_manga is given
MaxLimit == 3
\* longest title (in symbols) the pattern loop is given
MaxTitleLen == 4
\* longest title (in symbols) in a list searched for a chapter
MaxListedTitleLen == 4
\* longest list of titles (or of chapters) searched for a chapter
MaxChapters == 2
\* longest title (in symbols) of a chapter record
MaxRecordTitleLen == 2
\* largest value of a chapter record's number field
MaxNumberField == 2
\* longest list of queries, or of manga to test
MaxItems == 3
\* longest list of queries given to collect_from_source under SpecCollect
MaxQueries == 2
\* longest chapter list fetch_chapters delivers under SpecCollect
MaxFetched == 2
\* largest number of chapter anchors in a chapter listing
MaxAnchors == 2
\* largest chapters_per_manga under SpecCollect
MaxPerManga == 1
\* page_size of get_all_manga: 100 in the source (test_mangalek.py:136),
\* scaled down so that full, short and empty pages can all be enumerated
page_size == 2

(* Program constants *)

\* MangaLekChapterTester._request_with_retry: max_retries: int = 10
DefaultMaxRetries == 10
\* MangaLekChapterTester._request_with_retry: initial_delay: float = 3.0
DefaultInitialDelay == 3
\* ChapterPatternCollector._request_with_retry: max_retries: int = 5
CollectorMaxRetries == 5
\* ChapterPatternCollector._request_with_retry: initial_delay: float = 2.0
CollectorInitialDelay == 2
\* collect_from_source: chapters_per_manga: int = 3
DefaultChaptersPerManga == 3

-----------------------------------------------------------------------------
(* Values *)

Min(a, b) == IF a < b THEN a ELSE b
Max(a, b) == IF a > b THEN a ELSE b

SeqsUpTo(S, n) == UNION {[1..k -> S] : k \in 0..n}

RECURSIVE SumSeq(_)
SumSeq(s) == IF s = <<>> THEN 0 ELSE Head(s) + SumSeq(Tail(s))

RECURSIVE Pow(_, _)
Pow(b, n) == IF n = 0 THEN 1 ELSE b * Pow(b, n - 1)

\* An exception: its class and, for requests.HTTPError, the status code of
\* e.response (0: e.response is None).
Exc(t, s) == [type |-> t, status |-> s]
NoError == Exc("None", 0)

\* What request_func can raise: raise_for_status raises HTTPError for 4xx/5xx;
\* session.get/post raise ConnectionError or Timeout; anything else is "Other".
HTTPStatuses == {400, 404, 429, 500, 502, 503, 504}
Failures ==
    {Exc("HTTPError", s) : s \in HTTPStatuses \cup {0}}
        \cup {Exc("ConnectionError", 0), Exc("Timeout", 0), Exc("Other", 0)}

\* An entity is identified by its id; a page is the list the service sends.
Ids == 1..NumIds
Pages == SeqsUpTo(Ids, page_size)

Pending == [kind |-> "pending", value |-> <<>>, error |-> NoError]
Returned(v) == [kind |-> "return", value |-> v, error |-> NoError]
Raised(e) == [kind |-> "raise", value |-> <<>>, error |-> e]
\* the function ends without return or raise: the caller receives None
ReturnedNone == [kind |-> "none", value |-> <<>>, error |-> NoError]

-----------------------------------------------------------------------------
(* _request_with_retry *)

\* fault: the status check of the HTTPError clause is dropped
CollectorRetryableAnyHTTP(e) ==
    \/ e.type = "HTTPError"
    \/ e.type \in {"ConnectionError", "Timeout"}

\* collect_chapter_patterns.py: the two except clauses that retry
CollectorRetryable(e) ==
    \/ e.type = "HTTPError" /\ e.status \in {429, 500, 502, 503, 504}
    \/ e.type \in {"ConnectionError", "Timeout"}

\* fault: the tester given the collector's list of statuses and exceptions
TesterRetryableLikeCollector(e) ==
    \/ e.type = "HTTPError" /\ e.status \in {429, 500, 502, 503, 504}
    \/ e.type \in {"ConnectionError", "Timeout"}

\* fault: `== 429` is dropped, every HTTPError with a response is retried
TesterRetryableAnyStatus(e) ==
    e.type = "HTTPError" /\ e.status # 0

\* test_mangalek.py: only an HTTPError whose response has status 429 is retried
TesterRetryable(e) ==
    e.type = "HTTPError" /\ e.status = 429

Retryable(i, e) ==
    IF i = "collector" THEN CollectorRetryable(e) ELSE TesterRetryable(e)

\* fault: the loop makes one iteration less, range(max_retries - 1)
InLoopOneLess(a, m) == a < m - 1

\* for attempt in range(max_retries)
InLoop(a, m) == a < m

\* fault: off by one, the last attempt is never made
AttemptsRemainOffByOne(a, m) == a < m - 2

\* fault: the test of the last attempt is dropped, every retryable failure
\* is slept after
AttemptsRemainAlways(a, m) == TRUE

\* if attempt < max_retries - 1
AttemptsRemain(a, m) == a < m - 1

\* fault: the delay is not doubled
BackoffForgotten(d) == d

\* delay *= 2
Backoff(d) == d * 2

\* delay = initial_delay; last_error = None; the loop starts at attempt 0
StartRequest(i, m, d) ==
    /\ impl' = i
    /\ max_retries' = m
    /\ initial_delay' = d
    /\ attempt' = 0
    /\ delay' = d
    /\ last_error' = NoError
    /\ rpc' = "call"
    /\ path' = "none"
    /\ outcome' = Pending
    /\ calls' = 0
    /\ slept' = <<>>
    /\ failed' = <<>>

\* return request_func()
RequestReturns(v) ==
    /\ rpc = "call"
    /\ InLoop(attempt, max_retries)
    /\ calls' = calls + 1
    /\ outcome' = Returned(v)
    /\ path' = "return"
    /\ rpc' = "done"
    /\ UNCHANGED <<impl, max_retries, initial_delay, attempt, delay,
                   last_error, slept, failed>>

\* request_func() raises a retryable failure and attempts remain:
\* last_error = e; time.sleep(delay); delay *= 2; next iteration
RetrySleep(e) ==
    /\ rpc = "call"
    /\ InLoop(attempt, max_retries)
    /\ Retryable(impl, e)
    /\ AttemptsRemain(attempt, max_retries)
    /\ calls' = calls + 1
    /\ failed' = Append(failed, e)
    /\ last_error' = e
    /\ slept' = Append(slept, delay)
    /\ delay' = Backoff(delay)
    /\ attempt' = attempt + 1
    /\ path' = "retry"
    /\ UNCHANGED <<impl, max_retries, initial_delay, rpc, outcome>>

\* request_func() raises a retryable failure on the last attempt:
\* last_error = e; raise
RaiseExhausted(e) ==
    /\ rpc = "call"
    /\ InLoop(attempt, max_retries)
    /\ Retryable(impl, e)
    /\ ~AttemptsRemain(attempt, max_retries)
    /\ calls' = calls + 1
    /\ failed' = Append(failed, e)
    /\ last_error' = e
    /\ outcome' = Raised(e)
    /\ path' = "exhausted"
    /\ rpc' = "done"
    /\ UNCHANGED <<impl, max_retries, initial_delay, attempt, delay, slept>>

\* request_func() raises any other failure: raise
RaiseTerminal(e) ==
    /\ rpc = "call"
    /\ InLoop(attempt, max_retries)
    /\ ~Retryable(impl, e)
    /\ calls' = calls + 1
    /\ failed' = Append(failed, e)
    /\ outcome' = Raised(e)
    /\ path' = "terminal"
    /\ rpc' = "done"
    /\ UNCHANGED <<impl, max_retries, initial_delay, attempt, delay,
                   last_error, slept>>

\* the for loop is over: if last_error: raise last_error; else the function
\* ends and the caller receives None
LoopEnds ==
    /\ rpc = "call"
    /\ ~InLoop(attempt, max_retries)
    /\ outcome' = IF last_error # NoError THEN Raised(last_error) ELSE ReturnedNone
    /\ path' = "fallthrough"
    /\ rpc' = "done"
    /\ UNCHANGED <<impl, max_retries, initial_delay, attempt, delay,
                   last_error, calls, slept, failed>>

-----------------------------------------------------------------------------
(* Spec: one invocation of _request_with_retry *)

\* get_all_manga is not running
CrawlIdle ==
    /\ limit = 0
    /\ all_manga = <<>>
    /\ page = 1
    /\ results = <<>>
    /\ fetched = 0
    /\ cpc = "idle"
    /\ exit = "none"
    /\ caught = NoError
    /\ pacing = 0
    /\ ret = <<>>
    /\ crawl_error = NoError
    /\ log = <<>>
    /\ received = <<>>

\* nothing but the crawl (or the one invocation) is going on
CancelIdle == cancelled = FALSE

\* no pair of invocations is running
TwoIdle ==
    /\ inv = <<>>
    /\ frame = <<>>

\* the meaning of "no number": the loop's else branch, nothing extracted
NoNumber == [whole |-> 0 - 1, frac |-> 0, places |-> 0]
NoMatch == [pattern |-> 0, num |-> NoNumber]

\* the pattern loop is not running
ParseIdle ==
    /\ title = <<>>
    /\ parsed = NoMatch
    /\ ppc = "idle"

\* the lookup loop is not running
LookupIdle ==
    /\ titles = <<>>
    /\ lookups = <<>>

\* the chapter search is not running
DebugIdle ==
    /\ chapters = <<>>
    /\ founds = <<>>

\* no fetch operation of the collector is running
FetchIdle ==
    /\ op = "none"
    /\ fetch_ret = Pending
    /\ fpc = "idle"

Tally(t, ok, ko) == [total |-> t, success |-> ok, failed |-> ko]

\* collect_from_source has not returned
NotReturned == 0 - 1

\* the error reasons test_manga_chapters returns, by the return statement
Reasons ==
    {"empty_response", "zero_chapters", "rate_limit", "not_found",
     "server_error", "http_error", "http_no_response", "request_timeout",
     "connection_error", "timeout", "invalid_json", "unknown_error"}

\* self.results as __init__ leaves it; errors is a defaultdict(list)
FreshResults ==
    [total |-> 0, success |-> 0, failed |-> 0, zero_chapters |-> 0,
     errors |-> [r \in Reasons |-> <<>>],
     successful_manga |-> <<>>, failed_manga |-> <<>>]

\* the tuple (success, error_reason, chapter_count); raised: the function
\* raised instead of returning
TestTuple(ok, why, n) ==
    [raised |-> FALSE, success |-> ok, reason |-> why, count |-> n]
NoTest == [raised |-> FALSE, success |-> FALSE, reason |-> "none", count |-> 0]

\* neither collect_from_source nor run_test is running
RunIdle ==
    /\ prog = "none"
    /\ items = <<>>
    /\ idx = 0
    /\ ipc = "idle"
    /\ processed = <<>>
    /\ happened = <<>>
    /\ tally = Tally(0, 0, 0)
    /\ chapters_per_manga = 0
    /\ manga = "none"
    /\ collected_data = <<>>
    /\ prior_data = <<>>
    /\ fetched_lists = <<>>
    /\ run_ret = NotReturned
    /\ test_results = FreshResults
    /\ test_fetch = Pending
    /\ test_ret = NoTest

OutsideCrawlIdle ==
    /\ CancelIdle
    /\ TwoIdle
    /\ ParseIdle
    /\ LookupIdle
    /\ DebugIdle
    /\ FetchIdle
    /\ RunIdle

Init ==
    /\ impl \in {"collector", "tester"}
    /\ max_retries \in 0..MaxRetries
    /\ initial_delay \in 1..MaxInitialDelay
    /\ attempt = 0
    /\ delay = initial_delay
    /\ last_error = NoError
    /\ rpc = "call"
    /\ path = "none"
    /\ outcome = Pending
    /\ calls = 0
    /\ slept = <<>>
    /\ failed = <<>>
    /\ CrawlIdle
    /\ OutsideCrawlIdle

Next ==
    \/ \E v \in Pages : RequestReturns(v) /\ UNCHANGED outsideRetry
    \/ \E e \in Failures : RetrySleep(e) /\ UNCHANGED outsideRetry
    \/ \E e \in Failures : RaiseExhausted(e) /\ UNCHANGED outsideRetry
    \/ \E e \in Failures : RaiseTerminal(e) /\ UNCHANGED outsideRetry
    \/ LoopEnds /\ UNCHANGED outsideRetry

Spec == Init /\ [][Next]_vars

\* failures, one per branch of the except clauses: retried by both classes,
\* retried by the collector only, retried by neither
BranchFailures ==
    {Exc("HTTPError", 429), Exc("Timeout", 0), Exc("HTTPError", 404)}

LiveNext ==
    \/ \E v \in Pages : RequestReturns(v) /\ UNCHANGED outsideRetry
    \/ \E e \in BranchFailures : RetrySleep(e) /\ UNCHANGED outsideRetry
    \/ \E e \in BranchFailures : RaiseExhausted(e) /\ UNCHANGED outsideRetry
    \/ \E e \in BranchFailures : RaiseTerminal(e) /\ UNCHANGED outsideRetry
    \/ LoopEnds /\ UNCHANGED outsideRetry

\* one invocation that is not stopped from outside: request_func returns or
\* raises (every request has a timeout), time.sleep returns, and the loop
\* goes on
SpecLive == Init /\ [][LiveNext]_vars /\ WF_vars(LiveNext)

-----------------------------------------------------------------------------
(* MangaLekChapterTester.get_all_manga *)

\* fault: the list is returned whole
SliceForgotten(s, n) == s

\* all_manga[:limit], a Python slice: a negative limit counts from the end
SliceTo(s, n) ==
    IF n >= 0 THEN SubSeq(s, 1, Min(n, Len(s)))
              ELSE SubSeq(s, 1, Max(Len(s) + n, 0))

\* fault: one more round when the limit is just reached
MoreWantedInclusive(s, n) == Len(s) <= n

\* while len(all_manga) < limit
MoreWanted(s, n) == Len(s) < n

\* if not results
NoResults(r) == Len(r) = 0

\* fault: <= for <, a full page is taken for the last one
ShortPageInclusive(r) == Len(r) <= page_size

\* if len(results) < page_size
ShortPage(r) == Len(r) < page_size

\* fault: the page is put in front of what was collected
ExtendInFront(s, r) == r \o s

\* all_manga.extend(results)
Extend(s, r) == s \o r

\* fault: the page number is not advanced
NextPageStuck(p) == p

\* page += 1
NextPage(p) == p + 1

Event(e, n) == [ev |-> e, n |-> n]

\* fault: the pacing sleep is skipped when the fetch already slept for retries
PaceUnlessRetried(sl) == IF sl = <<>> THEN <<Event("pace", 0)>> ELSE <<>>

\* time.sleep(0.5), whatever sleeps sl the fetch made for its retries
Pace(sl) == <<Event("pace", 0)>>

\* the loop condition holds: search_all_manga(page, page_size) calls
\* self._request_with_retry(_make_request) with the default arguments
BeginFetch ==
    /\ cpc = "loop"
    /\ MoreWanted(all_manga, limit)
    /\ StartRequest("tester", DefaultMaxRetries, DefaultInitialDelay)
    /\ cpc' = "fetch"
    /\ log' = Append(log, Event("fetch", page))
    /\ UNCHANGED <<limit, all_manga, page, results, fetched, exit, caught,
                   pacing, ret, crawl_error, received>>

\* the attempts of the fetch in progress: _request_with_retry runs
\* _make_request, which posts the search for the current page
FetchReturns(v) ==
    /\ cpc = "fetch"
    /\ RequestReturns(v)
    /\ log' = Append(log, Event("call", page))
    /\ UNCHANGED <<crawlVars, received>>

FetchRetries(e) ==
    /\ cpc = "fetch"
    /\ RetrySleep(e)
    /\ log' = log \o <<Event("call", page), Event("retry_sleep", delay)>>
    /\ UNCHANGED <<crawlVars, received>>

FetchExhausted(e) ==
    /\ cpc = "fetch"
    /\ RaiseExhausted(e)
    /\ log' = Append(log, Event("call", page))
    /\ UNCHANGED <<crawlVars, received>>

FetchTerminal(e) ==
    /\ cpc = "fetch"
    /\ RaiseTerminal(e)
    /\ log' = Append(log, Event("call", page))
    /\ UNCHANGED <<crawlVars, received>>

\* the loop condition fails: the while loop ends
LimitReached ==
    /\ cpc = "loop"
    /\ ~MoreWanted(all_manga, limit)
    /\ exit' = "limit"
    /\ cpc' = "return"
    /\ UNCHANGED retryVars
    /\ UNCHANGED <<limit, all_manga, page, results, fetched, caught, pacing,
                   ret, crawl_error, log, received>>

\* results = resp.json() is empty: "No more results found", break
EmptyPage ==
    /\ cpc = "fetch" /\ rpc = "done" /\ outcome.kind = "return"
    /\ NoResults(outcome.value)
    /\ results' = outcome.value
    /\ fetched' = fetched + 1
    /\ exit' = "no_more"
    /\ cpc' = "return"
    /\ rpc' = "idle"
    /\ UNCHANGED <<impl, max_retries, initial_delay, attempt, delay,
                   last_error, path, outcome, calls, slept, failed>>
    /\ received' = Append(received, outcome.value)
    /\ UNCHANGED <<limit, all_manga, page, caught, pacing, ret, crawl_error,
                   log>>

\* a page shorter than page_size: extend, "Reached last page", break
LastPage ==
    /\ cpc = "fetch" /\ rpc = "done" /\ outcome.kind = "return"
    /\ ~NoResults(outcome.value)
    /\ ShortPage(outcome.value)
    /\ results' = outcome.value
    /\ fetched' = fetched + 1
    /\ all_manga' = Extend(all_manga, outcome.value)
    /\ exit' = "last_page"
    /\ cpc' = "return"
    /\ rpc' = "idle"
    /\ UNCHANGED <<impl, max_retries, initial_delay, attempt, delay,
                   last_error, path, outcome, calls, slept, failed>>
    /\ received' = Append(received, outcome.value)
    /\ UNCHANGED <<limit, page, caught, pacing, ret, crawl_error, log>>

\* a full page: extend, page += 1, time.sleep(0.5), back to the loop test
FullPage ==
    /\ cpc = "fetch" /\ rpc = "done" /\ outcome.kind = "return"
    /\ ~NoResults(outcome.value)
    /\ ~ShortPage(outcome.value)
    /\ results' = outcome.value
    /\ fetched' = fetched + 1
    /\ all_manga' = Extend(all_manga, outcome.value)
    /\ page' = NextPage(page)
    /\ pacing' = pacing + Len(Pace(slept))
    /\ log' = log \o Pace(slept)
    /\ received' = Append(received, outcome.value)
    /\ cpc' = "loop"
    /\ rpc' = "idle"
    /\ UNCHANGED <<impl, max_retries, initial_delay, attempt, delay,
                   last_error, path, outcome, calls, slept, failed>>
    /\ UNCHANGED <<limit, exit, caught, ret, crawl_error>>

\* _request_with_retry raised and search_all_manga let it through:
\* except Exception as e: print, break
FetchFailed ==
    /\ cpc = "fetch" /\ rpc = "done" /\ outcome.kind = "raise"
    /\ caught' = outcome.error
    /\ exit' = "error"
    /\ cpc' = "return"
    /\ rpc' = "idle"
    /\ UNCHANGED <<impl, max_retries, initial_delay, attempt, delay,
                   last_error, path, outcome, calls, slept, failed>>
    /\ UNCHANGED <<limit, all_manga, page, results, fetched, pacing, ret,
                   crawl_error, log, received>>

\* the response arrived but resp.json() raised in search_all_manga:
\* except Exception as e: print, break
JsonFailed ==
    /\ cpc = "fetch" /\ rpc = "done" /\ outcome.kind = "return"
    /\ caught' = Exc("Other", 0)
    /\ exit' = "error"
    /\ cpc' = "return"
    /\ rpc' = "idle"
    /\ UNCHANGED <<impl, max_retries, initial_delay, attempt, delay,
                   last_error, path, outcome, calls, slept, failed>>
    /\ UNCHANGED <<limit, all_manga, page, results, fetched, pacing, ret,
                   crawl_error, log, received>>

\* return all_manga[:limit]: the caller receives a list and no exception
ReturnManga ==
    /\ cpc = "return"
    /\ ret' = SliceTo(all_manga, limit)
    /\ crawl_error' = NoError
    /\ cpc' = "done"
    /\ UNCHANGED retryVars
    /\ UNCHANGED <<limit, all_manga, page, results, fetched, exit, caught,
                   pacing, log, received>>

-----------------------------------------------------------------------------
(* SpecCrawl: one invocation of get_all_manga *)

\* _request_with_retry is not running
RetryIdle ==
    /\ impl = "tester"
    /\ max_retries = DefaultMaxRetries
    /\ initial_delay = DefaultInitialDelay
    /\ attempt = 0
    /\ delay = DefaultInitialDelay
    /\ last_error = NoError
    /\ rpc = "idle"
    /\ path = "none"
    /\ outcome = Pending
    /\ calls = 0
    /\ slept = <<>>
    /\ failed = <<>>

\* all_manga = []; page = 1; page_size = 100
CrawlInit ==
    /\ limit \in (0 - 1)..MaxLimit
    /\ all_manga = <<>>
    /\ page = 1
    /\ results = <<>>
    /\ fetched = 0
    /\ cpc = "loop"
    /\ exit = "none"
    /\ caught = NoError
    /\ pacing = 0
    /\ ret = <<>>
    /\ crawl_error = NoError
    /\ log = <<>>
    /\ received = <<>>
    /\ RetryIdle
    /\ OutsideCrawlIdle

CrawlNext ==
    \/ BeginFetch /\ UNCHANGED outsideCrawl
    \/ \E v \in Pages : FetchReturns(v) /\ UNCHANGED outsideCrawl
    \/ \E e \in Failures : FetchRetries(e) /\ UNCHANGED outsideCrawl
    \/ \E e \in Failures : FetchExhausted(e) /\ UNCHANGED outsideCrawl
    \/ \E e \in Failures : FetchTerminal(e) /\ UNCHANGED outsideCrawl
    \/ EmptyPage /\ UNCHANGED outsideCrawl
    \/ LastPage /\ UNCHANGED outsideCrawl
    \/ FullPage /\ UNCHANGED outsideCrawl
    \/ FetchFailed /\ UNCHANGED outsideCrawl
    \/ JsonFailed /\ UNCHANGED outsideCrawl
    \/ LimitReached /\ UNCHANGED outsideCrawl
    \/ ReturnManga /\ UNCHANGED outsideCrawl

SpecCrawl == CrawlInit /\ [][CrawlNext]_vars

\* the same crawl, not stopped from outside: every call of request_func
\* returns or raises (timeout=15), every sleep returns
SpecCrawlLive == CrawlInit /\ [][CrawlNext]_vars /\ WF_vars(CrawlNext)

-----------------------------------------------------------------------------
(* SpecCancel: a crawl whose caller may signal cancellation at any moment.  *)
(* get_all_manga, search_all_manga and _request_with_retry take no          *)
(* cancellation argument and read no flag, so the signal is a step of the   *)
(* caller alone.                                                            *)

\* the caller signals cancellation (section 5 of the specification)
Cancel ==
    /\ ~cancelled
    /\ cpc # "done"
    /\ cancelled' = TRUE
    /\ UNCHANGED <<retryVars, crawlVars, crawlObs, twoVars, parseVars,
                   lookupVars, debugVars, fetchVars, runVars>>

CancelNext ==
    \/ Cancel
    \/ BeginFetch /\ UNCHANGED outsideCrawl
    \/ \E v \in Pages : FetchReturns(v) /\ UNCHANGED outsideCrawl
    \/ \E e \in Failures : FetchRetries(e) /\ UNCHANGED outsideCrawl
    \/ \E e \in Failures : FetchExhausted(e) /\ UNCHANGED outsideCrawl
    \/ \E e \in Failures : FetchTerminal(e) /\ UNCHANGED outsideCrawl
    \/ EmptyPage /\ UNCHANGED outsideCrawl
    \/ LastPage /\ UNCHANGED outsideCrawl
    \/ FullPage /\ UNCHANGED outsideCrawl
    \/ FetchFailed /\ UNCHANGED outsideCrawl
    \/ JsonFailed /\ UNCHANGED outsideCrawl
    \/ LimitReached /\ UNCHANGED outsideCrawl
    \/ ReturnManga /\ UNCHANGED outsideCrawl

SpecCancel == CrawlInit /\ [][CancelNext]_vars

-----------------------------------------------------------------------------
(* SpecTwo: two invocations of _request_with_retry on the same object,      *)
(* their steps interleaved in any order (two threads, or a request_func     *)
(* that itself calls the method).  attempt, delay and last_error are locals *)
(* of the function: each activation has its own.  The method assigns no     *)
(* attribute of self.                                                       *)

\* the invocations
Invocations == 1..2

\* failures request_func raises here: one retried by both classes, one
\* retried by the collector only, one retried by neither
TwoFailures == {Exc("HTTPError", 429), Exc("Timeout", 0), Exc("HTTPError", 404)}

\* fault: the locals are kept on the object, one set for every invocation
FrameOnSelf(i) == 1

\* the activation record that holds invocation i's locals
FrameOf(i) == i

Locals(a, d, e) == [attempt |-> a, delay |-> d, last_error |-> e]

\* nothing was called yet; the arguments are chosen
TwoInit ==
    /\ \E c \in {"collector", "tester"} :
       \E ms \in [Invocations -> 1..MaxRetries] :
       \E ds \in [Invocations -> 1..MaxInitialDelay] :
            inv = [i \in Invocations |->
                     [impl |-> c, max_retries |-> ms[i], initial_delay |-> ds[i],
                      rpc |-> "idle", calls |-> 0, slept |-> <<>>,
                      nfailed |-> 0, outcome |-> Pending]]
    /\ frame = [f \in Invocations |-> Locals(0, 0, NoError)]
    /\ RetryIdle
    /\ CrawlIdle
    /\ CancelIdle
    /\ ParseIdle
    /\ LookupIdle
    /\ DebugIdle
    /\ FetchIdle
    /\ RunIdle

\* delay = initial_delay; last_error = None; the loop starts at attempt 0
TwoStart(i) ==
    /\ inv[i].rpc = "idle"
    /\ frame' = [frame EXCEPT ![FrameOf(i)] =
                    Locals(0, inv[i].initial_delay, NoError)]
    /\ inv' = [inv EXCEPT ![i].rpc = "call"]

\* return request_func()
TwoReturns(i) ==
    /\ inv[i].rpc = "call"
    /\ InLoop(frame[FrameOf(i)].attempt, inv[i].max_retries)
    /\ inv' = [inv EXCEPT ![i].calls = @ + 1,
                          ![i].outcome = Returned(<<>>),
                          ![i].rpc = "done"]
    /\ UNCHANGED frame

\* a retryable failure and attempts remain:
\* last_error = e; time.sleep(delay); delay *= 2; next iteration
TwoRetrySleep(i, e) ==
    LET l == frame[FrameOf(i)] IN
    /\ inv[i].rpc = "call"
    /\ InLoop(l.attempt, inv[i].max_retries)
    /\ Retryable(inv[i].impl, e)
    /\ AttemptsRemain(l.attempt, inv[i].max_retries)
    /\ inv' = [inv EXCEPT ![i].calls = @ + 1,
                          ![i].nfailed = @ + 1,
                          ![i].slept = Append(@, l.delay)]
    /\ frame' = [frame EXCEPT ![FrameOf(i)] =
                    Locals(l.attempt + 1, Backoff(l.delay), e)]

\* a retryable failure on the last attempt: last_error = e; raise
TwoRaiseExhausted(i, e) ==
    LET l == frame[FrameOf(i)] IN
    /\ inv[i].rpc = "call"
    /\ InLoop(l.attempt, inv[i].max_retries)
    /\ Retryable(inv[i].impl, e)
    /\ ~AttemptsRemain(l.attempt, inv[i].max_retries)
    /\ inv' = [inv EXCEPT ![i].calls = @ + 1,
                          ![i].nfailed = @ + 1,
                          ![i].outcome = Raised(e),
                          ![i].rpc = "done"]
    /\ frame' = [frame EXCEPT ![FrameOf(i)].last_error = e]

\* any other failure: raise
TwoRaiseTerminal(i, e) ==
    /\ inv[i].rpc = "call"
    /\ InLoop(frame[FrameOf(i)].attempt, inv[i].max_retries)
    /\ ~Retryable(inv[i].impl, e)
    /\ inv' = [inv EXCEPT ![i].calls = @ + 1,
                          ![i].nfailed = @ + 1,
                          ![i].outcome = Raised(e),
                          ![i].rpc = "done"]
    /\ UNCHANGED frame

outsideTwo == <<retryVars, crawlVars, crawlObs, cancelled, parseVars,
                lookupVars, debugVars,
        fetchVars, runVars>>

TwoNext ==
    \/ \E i \in Invocations : TwoStart(i) /\ UNCHANGED outsideTwo
    \/ \E i \in Invocations : TwoReturns(i) /\ UNCHANGED outsideTwo
    \/ \E i \in Invocations, e \in TwoFailures :
            TwoRetrySleep(i, e) /\ UNCHANGED outsideTwo
    \/ \E i \in Invocations, e \in TwoFailures :
            TwoRaiseExhausted(i, e) /\ UNCHANGED outsideTwo
    \/ \E i \in Invocations, e \in TwoFailures :
            TwoRaiseTerminal(i, e) /\ UNCHANGED outsideTwo

SpecTwo == TwoInit /\ [][TwoNext]_vars

-----------------------------------------------------------------------------
(* Chapter titles and the regular expressions of test_pattern.py            *)
(*                                                                          *)
(* A title is a sequence of symbols.  "Chapter" stands for Chapter or       *)
(* Episode in any case, "Ch" for Ch or Ep in any case (the alternatives     *)
(* that may take a dot), a digit for itself, " " for a whitespace           *)
(* character, "-" and ":" for themselves, "." for itself and "x" for any    *)
(* other character.                                                         *)

DigitValue ==
    ("0" :> 0) @@ ("1" :> 1) @@ ("2" :> 2) @@ ("3" :> 3) @@ ("4" :> 4) @@
    ("5" :> 5) @@ ("6" :> 6) @@ ("7" :> 7) @@ ("8" :> 8) @@ ("9" :> 9)
IsDigit(c) == c \in DOMAIN DigitValue
Has(t, i, S) == i >= 1 /\ i <= Len(t) /\ t[i] \in S

\* \d+ from position i, greedy: the position of its last digit (i - 1: none)
RECURSIVE DigitsEnd(_, _)
DigitsEnd(t, i) ==
    IF i <= Len(t) /\ IsDigit(t[i]) THEN DigitsEnd(t, i + 1) ELSE i - 1

\* \s* from position i, greedy: the first position after the whitespace
RECURSIVE SkipSpaces(_, _)
SkipSpaces(t, i) ==
    IF i <= Len(t) /\ t[i] = " " THEN SkipSpaces(t, i + 1) ELSE i

\* the positions i..j in descending order
Down(j, i) == [k \in 1..(j - i + 1) |-> j - k + 1]

\* (\d+(?:\.\d+)?) from position i: the positions where the group can end,
\* in the order the matcher tries them: all the digits and the longest
\* fraction first, then shorter fractions, then no fraction, then fewer digits
NumberEnds(t, i) ==
    LET e == DigitsEnd(t, i)
        f == IF Has(t, e + 1, {"."}) THEN DigitsEnd(t, e + 2) ELSE e + 1
    IN  IF e < i THEN <<>>
        ELSE (IF f >= e + 2 THEN Down(f, e + 2) ELSE <<>>) \o Down(e, i)

\* the value of the digits t[i..j]
RECURSIVE DigitsValue(_, _, _)
DigitsValue(t, i, j) ==
    IF j < i THEN 0 ELSE DigitsValue(t, i, j - 1) * 10 + DigitValue[t[j]]

\* a decimal without trailing zeros in its fraction
RECURSIVE Float(_, _, _)
Float(w, f, p) ==
    IF p > 0 /\ f % 10 = 0 THEN Float(w, f \div 10, p - 1)
    ELSE [whole |-> w, frac |-> f, places |-> p]

\* float(match.group(1)) for the group t[i..j]
FloatOfGroup(t, i, j) ==
    LET e == DigitsEnd(t, i)
    IN  IF j <= e THEN Float(DigitsValue(t, i, j), 0, 0)
        ELSE Float(DigitsValue(t, i, e), DigitsValue(t, e + 2, j), j - (e + 1))

\* float(requested) for an int
FloatOfInt(n) == Float(n, 0, 0)

Group(i, j) == [ok |-> TRUE, from |-> i, to |-> j]
NoGroup == [ok |-> FALSE, from |-> 0, to |-> 0]

\* the group at position i, ended at the first end (in the order tried)
\* after which the rest of the pattern matches
FirstEnd(i, ends, good) ==
    LET ks == {k \in 1..Len(ends) : ends[k] \in good}
    IN  IF ks = {} THEN NoGroup
        ELSE Group(i, ends[CHOOSE k \in ks : \A l \in ks : k <= l])

\* (?:Chapter|Ch\.?|Episode|Ep\.?)\s*(\d+(?:\.\d+)?) matched at position k:
\* nothing follows the group, so it ends at the first end tried.  Without
\* its dot, Ch or Ep cannot be followed by \s* and a digit when a dot is
\* there, so the dot is taken whenever it is there.
KeywordAt(t, k) ==
    LET d == IF t[k] = "Ch" /\ Has(t, k + 1, {"."}) THEN k + 2 ELSE k + 1
        n == SkipSpaces(t, d)
        ends == NumberEnds(t, n)
    IN  IF t[k] \in {"Chapter", "Ch"} /\ ends # <<>>
        THEN Group(n, ends[1]) ELSE NoGroup

\* re.search of pattern 1: the leftmost position where it matches
KeywordForm(t) ==
    LET ks == {k \in 1..Len(t) : KeywordAt(t, k).ok}
    IN  IF ks = {} THEN NoGroup
        ELSE KeywordAt(t, CHOOSE k \in ks : \A l \in ks : k <= l)

\* ^(\d+(?:\.\d+)?)\s*[-:]
SeparatorForm(t) ==
    LET ends == NumberEnds(t, 1)
    IN  FirstEnd(1, ends,
            {j \in 1..Len(t) : Has(t, SkipSpaces(t, j + 1), {"-", ":"})})

\* ^(\d+(?:\.\d+)?)\s*$
BareForm(t) ==
    LET ends == NumberEnds(t, 1)
    IN  FirstEnd(1, ends, {j \in 1..Len(t) : SkipSpaces(t, j + 1) > Len(t)})

\* patterns, in list order
NumPatterns == 3
PatternMatch(i, t) ==
    CASE i = 1 -> KeywordForm(t)
      [] i = 2 -> SeparatorForm(t)
      [] i = 3 -> BareForm(t)

Match(i, t) ==
    LET g == PatternMatch(i, t)
    IN  [pattern |-> i, num |-> FloatOfGroup(t, g.from, g.to)]

\* fault: the loop has no break, the last pattern that matches is kept
RECURSIVE LastMatchFrom(_, _, _)
LastMatchFrom(t, i, m) ==
    IF i > NumPatterns THEN m
    ELSE LastMatchFrom(t, i + 1, IF PatternMatch(i, t).ok THEN Match(i, t) ELSE m)
ExtractNumberNoBreak(t) == LastMatchFrom(t, 1, NoMatch)

\* for i, pattern in enumerate(patterns, 1): if match: ...; break
\* else: no pattern matched
RECURSIVE FirstMatchFrom(_, _)
FirstMatchFrom(t, i) ==
    IF i > NumPatterns THEN NoMatch
    ELSE IF PatternMatch(i, t).ok THEN Match(i, t)
    ELSE FirstMatchFrom(t, i + 1)
ExtractNumber(t) == FirstMatchFrom(t, 1)

\* the titles of the source
test_titles == <<
    <<"x", "x", "x", ".", "0", "1", " ", "Ch", ".", "0", "0", "1", " ", "-",
      " ", "x">>,
    <<"x", "x", "x", ".", "0", "1", " ", "Ch", ".", "0", "0", "2", " ", "-",
      " ", "x">>,
    <<"x", "x", "x", ".", "0", "1", " ", "Ch", ".", "0", "0", "3", " ", "-",
      " ", "x", ":", " ", "x">>,
    <<"x", "x", "x", ".", "9", "8", " ", "Ch", ".", "1", "1", "6", "5">> >>

-----------------------------------------------------------------------------
(* SpecParse: the pattern loop of test_pattern.py applied to one title      *)

\* the symbols titles are drawn from
TitleSymbols == {"Chapter", "Ch", ".", " ", "-", "0", "1", "2", "x"}
Titles == SeqsUpTo(TitleSymbols, MaxTitleLen)

ParseInit ==
    /\ title \in Titles \cup {test_titles[i] : i \in 1..Len(test_titles)}
    /\ parsed = NoMatch
    /\ ppc = "ready"
    /\ RetryIdle
    /\ CrawlIdle
    /\ CancelIdle
    /\ TwoIdle
    /\ LookupIdle
    /\ DebugIdle
    /\ FetchIdle
    /\ RunIdle

\* one iteration of `for title in test_titles`
ParseTitle ==
    /\ ppc = "ready"
    /\ parsed' = ExtractNumber(title)
    /\ ppc' = "done"
    /\ UNCHANGED title

outsideParse == <<retryVars, crawlVars, crawlObs, cancelled, twoVars,
                  lookupVars, debugVars,
        fetchVars, runVars>>

ParseNext ==
    ParseTitle /\ UNCHANGED outsideParse

SpecParse == ParseInit /\ [][ParseNext]_vars

-----------------------------------------------------------------------------
(* SpecLookup: the lookup loop of test_pattern.py over a list of titles     *)

requested_chapters == <<1, 2, 3>>

\* for pattern in patterns: if match: if chapter_num == float(requested):
\* found = True; break -- a pattern that matches with another number does
\* not end the loop over the patterns
TitleYields(t, requested) ==
    \E i \in 1..NumPatterns :
        /\ PatternMatch(i, t).ok
        /\ Match(i, t).num = FloatOfInt(requested)

\* for title in test_titles: ...; if found: break
RECURSIVE LookupFrom(_, _, _)
LookupFrom(ts, k, requested) ==
    IF k > Len(ts) THEN 0
    ELSE IF TitleYields(ts[k], requested) THEN k
    ELSE LookupFrom(ts, k + 1, requested)

\* the symbols listed titles are drawn from
ListedSymbols == {"Ch", "-", "1", "2"}
ListedTitles == SeqsUpTo(ListedSymbols, MaxListedTitleLen)

LookupInit ==
    /\ titles \in SeqsUpTo(ListedTitles, MaxChapters) \cup {test_titles}
    /\ lookups = <<>>
    /\ RetryIdle
    /\ CrawlIdle
    /\ CancelIdle
    /\ TwoIdle
    /\ ParseIdle
    /\ DebugIdle
    /\ FetchIdle
    /\ RunIdle

\* one iteration of `for requested in requested_chapters`
Lookup ==
    /\ Len(lookups) < Len(requested_chapters)
    /\ lookups' = Append(lookups,
            LookupFrom(titles, 1, requested_chapters[Len(lookups) + 1]))
    /\ UNCHANGED titles

outsideLookup == <<retryVars, crawlVars, crawlObs, cancelled, twoVars,
                   parseVars, debugVars,
        fetchVars, runVars>>

LookupNext ==
    Lookup /\ UNCHANGED outsideLookup

SpecLookup == LookupInit /\ [][LookupNext]_vars

-----------------------------------------------------------------------------
(* SpecDebug: the chapter search of debug_chapters.py.  The chapter list    *)
(* comes from HaruNekoDownloadService._get_chapters, which is not part of   *)
(* the sources: any list of records with a title and an optional number is  *)
(* an input.                                                                *)

search_nums == <<1, 2, 3>>

\* ch.get('number') of a record without the field, or with a field that is
\* not a number: equal to no search_num
NoField == 0 - 1

\* str(search_num), one digit
Str(n) == CHOOSE c \in DOMAIN DigitValue : DigitValue[c] = n

\* (?:Chapter|Ch\.?|Episode|Ep\.?)\s* + str(search_num) + (?:\D|$)
TitleNamesKeyword(t, n) ==
    \E k \in 1..Len(t) :
        LET d == IF t[k] = "Ch" /\ Has(t, k + 1, {"."}) THEN k + 2 ELSE k + 1
            m == SkipSpaces(t, d)
        IN  /\ t[k] \in {"Chapter", "Ch"}
            /\ Has(t, m, {Str(n)})
            /\ (m + 1 > Len(t) \/ ~IsDigit(t[m + 1]))

\* ^ + str(search_num) + \s*[-:]
TitleNamesLeading(t, n) ==
    /\ Has(t, 1, {Str(n)})
    /\ Has(t, SkipSpaces(t, 2), {"-", ":"})

InList(x, l) == \E k \in 1..Len(l) : l[k] = x

\* one iteration of `for ch in chapters`: the number test, then the title
\* patterns, whatever the number test found
FoundWith(found, ch, n) ==
    LET byNumber == IF ch.number = n THEN Append(found, ch) ELSE found
    IN  IF (TitleNamesKeyword(ch.title, n) \/ TitleNamesLeading(ch.title, n))
            /\ ~InList(ch, byNumber)
        THEN Append(byNumber, ch) ELSE byNumber

\* found = []; for ch in chapters: ...
RECURSIVE FoundFrom(_, _, _, _)
FoundFrom(chs, k, n, found) ==
    IF k > Len(chs) THEN found
    ELSE FoundFrom(chs, k + 1, n, FoundWith(found, chs[k], n))

NumberFields == {NoField} \cup 1..MaxNumberField
RecordTitles == SeqsUpTo(ListedSymbols, MaxRecordTitleLen)

\* a list of chapter records, their ids distinct
DebugInit ==
    /\ \E n \in 0..MaxChapters :
       \E ns \in [1..n -> NumberFields], ts \in [1..n -> RecordTitles] :
            chapters = [k \in 1..n |->
                          [id |-> k, number |-> ns[k], title |-> ts[k]]]
    /\ founds = <<>>
    /\ RetryIdle
    /\ CrawlIdle
    /\ CancelIdle
    /\ TwoIdle
    /\ ParseIdle
    /\ LookupIdle
    /\ FetchIdle
    /\ RunIdle

\* one iteration of `for search_num in [1, 2, 3]`
Search ==
    /\ Len(founds) < Len(search_nums)
    /\ founds' = Append(founds,
            FoundFrom(chapters, 1, search_nums[Len(founds) + 1], <<>>))
    /\ UNCHANGED chapters

outsideDebug == <<retryVars, crawlVars, crawlObs, cancelled, twoVars,
                  parseVars, lookupVars,
        fetchVars, runVars>>

DebugNext ==
    Search /\ UNCHANGED outsideDebug

SpecDebug == DebugInit /\ [][DebugNext]_vars

-----------------------------------------------------------------------------
(* SpecFetch: one call of get_sources, search_manga or fetch_chapters of    *)
(* ChapterPatternCollector, its request run by the collector's              *)
(* _request_with_retry with the default arguments.                          *)

FetchOps == {"get_sources", "search_manga", "fetch_chapters"}

\* what the service can answer: a success envelope or a bare list holding
\* records, some other JSON value, or a body that is not JSON
Body(sh, v) == [shape |-> sh, data |-> v]
Bodies ==
    {Body(sh, v) : sh \in {"success_dict", "list"}, v \in Pages}
        \cup {Body("other", <<>>), Body("not_json", <<>>)}

\* data = resp.json(); the two isinstance branches; return []
Records(b) ==
    IF b.shape \in {"success_dict", "list"} THEN b.data ELSE <<>>

\* what the operation returns, given how _request_with_retry ended:
\* try: ...; return records / except Exception as e: print(...); return []
OpResult(o) ==
    IF o.kind = "return" /\ o.value.shape # "not_json"
    THEN Returned(Records(o.value))
    ELSE Returned(<<>>)

FetchInit ==
    /\ op \in FetchOps
    /\ fetch_ret = Pending
    /\ fpc = "start"
    /\ RetryIdle
    /\ CrawlIdle
    /\ CancelIdle
    /\ TwoIdle
    /\ ParseIdle
    /\ LookupIdle
    /\ DebugIdle
    /\ RunIdle

\* resp = self._request_with_retry(_make_request)
OpBegins ==
    /\ fpc = "start"
    /\ StartRequest("collector", CollectorMaxRetries, CollectorInitialDelay)
    /\ fpc' = "request"
    /\ UNCHANGED <<op, fetch_ret>>

OpRequestReturns(b) ==
    /\ fpc = "request"
    /\ RequestReturns(b)
    /\ UNCHANGED fetchVars

OpRequestRetries(e) ==
    /\ fpc = "request"
    /\ RetrySleep(e)
    /\ UNCHANGED fetchVars

OpRequestExhausted(e) ==
    /\ fpc = "request"
    /\ RaiseExhausted(e)
    /\ UNCHANGED fetchVars

OpRequestTerminal(e) ==
    /\ fpc = "request"
    /\ RaiseTerminal(e)
    /\ UNCHANGED fetchVars

\* the request is over: the try block returns, or the except clause does
OpReturns ==
    /\ fpc = "request"
    /\ rpc = "done"
    /\ fetch_ret' = OpResult(outcome)
    /\ fpc' = "done"
    /\ UNCHANGED <<op, retryVars>>

outsideFetch == <<crawlVars, crawlObs, cancelled, twoVars, parseVars,
                  lookupVars, debugVars, runVars>>

FetchNext ==
    \/ OpBegins /\ UNCHANGED outsideFetch
    \/ \E b \in Bodies : OpRequestReturns(b) /\ UNCHANGED outsideFetch
    \/ \E e \in Failures : OpRequestRetries(e) /\ UNCHANGED outsideFetch
    \/ \E e \in Failures : OpRequestExhausted(e) /\ UNCHANGED outsideFetch
    \/ \E e \in Failures : OpRequestTerminal(e) /\ UNCHANGED outsideFetch
    \/ OpReturns /\ UNCHANGED outsideFetch

SpecFetch == FetchInit /\ [][FetchNext]_vars

-----------------------------------------------------------------------------
(* SpecRun: ChapterPatternCollector.collect_from_source over a list of      *)
(* queries, or MangaLekChapterTester.run_test over the list get_all_manga   *)
(* returned.  A call of search_manga, fetch_chapters, get_all_manga or      *)
(* test_manga_chapters is one step: each makes a bounded number of          *)
(* attempts, every request has a timeout, and none of them raises           *)
(* Exception to its caller.  The for loops run to their end unless stopped, *)
(* hence the weak fairness of the next-state action.                        *)

\* a record of a result list: a mapping with an id, a mapping without one,
\* or a value that is no mapping (.get raises AttributeError)
RecordKinds == {"ok", "no_id", "not_mapping"}

\* how the request of search_manga or fetch_chapters can end
RunOutcomes ==
    {Returned(Body("list", v)) : v \in SeqsUpTo(RecordKinds, 1)}
        \cup {Returned(Body("not_json", <<>>))}
        \cup {Raised(e) : e \in TwoFailures}

\* how fetch_chapter_listing_html can end: resp.text, or the exception of
\* _request_with_retry
\* resp.text: blank (empty or whitespace only), or a listing with some
\* number of li.wp-manga-chapter > a anchors
Html(b, n) == [blank |-> b, anchors |-> n]
Htmls == {Html(TRUE, 0)} \cup {Html(FALSE, n) : n \in 0..MaxAnchors}
TestOutcomes == {Returned(h) : h \in Htmls} \cup {Raised(e) : e \in Failures}

\* fault: the test for an empty chapter list is dropped
NoChaptersNever(n) == FALSE

\* if chapter_count == 0
NoChapters(n) == n = 0

\* str(e) of an exception, by the words the last except clause looks for
\* in it
Messages == SUBSET {"connection", "timeout", "json"}

\* except Exception: the message is categorised, first match first
Categorised(w) ==
    IF "connection" \in w THEN "connection_error"
    ELSE IF "timeout" \in w THEN "timeout"
    ELSE IF "json" \in w THEN "invalid_json"
    ELSE "unknown_error"

\* the except clauses of test_manga_chapters: the reason returned for
\* exception e whose message holds the words w
ReasonOf(e, w) ==
    CASE e.type = "HTTPError" /\ e.status = 429 -> "rate_limit"
      [] e.type = "HTTPError" /\ e.status = 404 -> "not_found"
      [] e.type = "HTTPError" /\ e.status >= 500 -> "server_error"
      [] e.type = "HTTPError" /\ e.status = 0 -> "http_no_response"
      [] e.type = "HTTPError" /\ e.status \notin {0, 404, 429}
            /\ e.status < 500 -> "http_error"
      [] e.type = "Timeout" -> "request_timeout"
      [] OTHER -> Categorised(w)

\* test_manga_chapters, given how fetch_chapter_listing_html ended (and
\* the words of the message when it raised): the tuple returned, by the
\* return statement reached
TestResult(o, w) ==
    IF o.kind = "return"
    THEN IF o.value.blank THEN TestTuple(FALSE, "empty_response", 0)
         ELSE IF NoChapters(o.value.anchors)
              THEN TestTuple(FALSE, "zero_chapters", 0)
         ELSE TestTuple(TRUE, "", o.value.anchors)
    ELSE TestTuple(FALSE, ReasonOf(o.error, w), 0)

\* fault: `break` instead of `continue` in the except clause
AfterExceptionAbort == "end"

\* except Exception as e: print(...); continue
AfterException == "for"

Queries == {[k \in 1..n |-> k] : n \in 0..MaxItems}

RunInit ==
    /\ \/ prog = "collect" /\ items \in Queries /\ ipc = "for"
       \/ prog = "test" /\ items = <<>> /\ ipc = "start"
    /\ idx = 0
    /\ processed = <<>>
    /\ happened = <<>>
    /\ tally = Tally(0, 0, 0)
    /\ chapters_per_manga = DefaultChaptersPerManga
    /\ manga = "none"
    /\ collected_data = <<>>
    /\ prior_data = <<>>
    /\ fetched_lists = <<>>
    /\ run_ret = NotReturned
    /\ test_results = FreshResults
    /\ test_fetch = Pending
    /\ test_ret = NoTest
    /\ RetryIdle
    /\ CrawlIdle
    /\ CancelIdle
    /\ TwoIdle
    /\ ParseIdle
    /\ LookupIdle
    /\ DebugIdle
    /\ FetchIdle

\* what an iteration leaves alone until it appends an entry
collectKept == <<chapters_per_manga, collected_data, prior_data,
                 fetched_lists, run_ret, test_results, test_fetch, test_ret>>

\* fault: every fetched chapter is sampled
SampleAll(chs, n) == chs

\* sample_chapters = chapters[:chapters_per_manga]
SampleChapters(chs, n) == SliceTo(chs, n)

\* chapter_data, once the loop over enumerate(sample_chapters, 1) is over
Entry(m, chs, n) ==
    [manga_id |-> m,
     total_chapters |-> Len(chs),
     sample_chapters |->
        [i \in 1..Len(SampleChapters(chs, n)) |->
            [index |-> i, chapter |-> SampleChapters(chs, n)[i]]]]

\* chapter.get raises for a sampled chapter that is no mapping
SampleRaises(chs, n) ==
    \E i \in 1..Len(SampleChapters(chs, n)) :
        SampleChapters(chs, n)[i] = "not_mapping"

\* collect_from_source: for query in manga_queries: try: ...
CollectNextQuery ==
    /\ prog = "collect"
    /\ ipc = "for"
    /\ idx < Len(items)
    /\ idx' = idx + 1
    /\ processed' = Append(processed, items[idx + 1])
    /\ ipc' = "search"
    /\ UNCHANGED <<prog, items, happened, tally, manga, collectKept>>

\* continue
Skip(why) ==
    /\ ipc' = "for"
    /\ happened' = Append(happened, why)
    /\ UNCHANGED <<prog, items, idx, processed, tally, collectKept>>

\* an exception inside the try block
Except ==
    /\ ipc' = AfterException
    /\ happened' = Append(happened, "exception")
    /\ UNCHANGED <<prog, items, idx, processed, tally, collectKept>>

\* results = self.search_manga(query, source); manga = results[0];
\* manga_id = manga.get('id')
SearchManga(o) ==
    LET found == OpResult(o).value IN
    /\ prog = "collect"
    /\ ipc = "search"
    /\ IF found = <<>> THEN Skip("no_results") /\ UNCHANGED manga
       ELSE IF found[1] = "not_mapping" THEN Except /\ manga' = found[1]
       ELSE IF found[1] = "no_id" THEN Skip("no_id") /\ manga' = found[1]
       ELSE /\ ipc' = "chapters"
            /\ manga' = found[1]
            /\ UNCHANGED <<prog, items, idx, processed, happened, tally,
                           collectKept>>

\* chapters = self.fetch_chapters(manga_id, source); the sample loop;
\* self.collected_data.append; collected_count += 1; time.sleep(0.5)
FetchChapters(o) ==
    LET found == OpResult(o).value IN
    /\ prog = "collect"
    /\ ipc = "chapters"
    /\ UNCHANGED manga
    /\ IF found = <<>> THEN Skip("no_chapters")
       ELSE IF SampleRaises(found, chapters_per_manga) THEN Except
       ELSE /\ ipc' = "for"
            /\ happened' = Append(happened, "collected")
            /\ collected_data' = Append(collected_data,
                    Entry(manga, found, chapters_per_manga))
            /\ fetched_lists' = Append(fetched_lists, found)
            /\ tally' = Tally(tally.total + 1, tally.success + 1, tally.failed)
            /\ UNCHANGED <<prog, items, idx, processed, chapters_per_manga,
                           prior_data, run_ret, test_results, test_fetch,
                           test_ret>>

\* return collected_count
CollectReturns ==
    /\ prog = "collect"
    /\ ipc = "for"
    /\ idx = Len(items)
    /\ ipc' = "end"
    /\ run_ret' = tally.success
    /\ UNCHANGED <<prog, items, idx, processed, happened, tally, manga,
                   chapters_per_manga, collected_data, prior_data,
                   fetched_lists, test_results, test_fetch, test_ret>>

\* run_test: all_manga = self.get_all_manga(limit=manga_limit);
\* if not all_manga: return
GetAllManga(l) ==
    /\ prog = "test"
    /\ ipc = "start"
    /\ items' = l
    /\ ipc' = IF l = <<>> THEN "end" ELSE "for"
    /\ UNCHANGED <<prog, idx, processed, happened, tally, manga, collectKept>>

\* for idx, manga in enumerate(all_manga, 1): manga_id, manga_title, print
TestNextManga ==
    /\ prog = "test"
    /\ ipc = "for"
    /\ idx < Len(items)
    /\ idx' = idx + 1
    /\ processed' = Append(processed, items[idx + 1])
    /\ ipc' = "test"
    /\ UNCHANGED <<prog, items, happened, tally, manga, collectKept>>

\* fault: an empty response is counted as zero chapters too
IsZeroChaptersOrEmpty(reason) == reason \in {"zero_chapters", "empty_response"}

\* if error_reason == "Zero chapters returned"
IsZeroChapters(reason) == reason = "zero_chapters"

\* self.results after lines 285-309 for manga m with result r
Recorded(res, m, r) ==
    IF r.success
    THEN [res EXCEPT !.total = @ + 1,
                     !.success = @ + 1,
                     !.successful_manga =
                        Append(@, [id |-> m, chapter_count |-> r.count])]
    ELSE [res EXCEPT !.total = @ + 1,
                     !.failed = @ + 1,
                     !.zero_chapters =
                        IF IsZeroChapters(r.reason) THEN @ + 1 ELSE @,
                     !.errors[r.reason] = Append(@, [id |-> m]),
                     !.failed_manga =
                        Append(@, [id |-> m, error |-> r.reason])]

\* success, error_reason, chapter_count = self.test_manga_chapters(manga);
\* the counters; if idx < total: time.sleep(delay)
TestMangaChapters(o, w) ==
    LET r == TestResult(o, w) IN
    /\ prog = "test"
    /\ ipc = "test"
    /\ tally' = IF r.success
                THEN Tally(tally.total + 1, tally.success + 1, tally.failed)
                ELSE Tally(tally.total + 1, tally.success, tally.failed + 1)
    /\ happened' = Append(happened, IF r.success THEN "success" ELSE r.reason)
    /\ test_fetch' = o
    /\ test_ret' = r
    /\ test_results' = Recorded(test_results, items[idx], r)
    /\ ipc' = "for"
    /\ UNCHANGED <<prog, items, idx, processed, manga, chapters_per_manga,
                   collected_data, prior_data, fetched_lists, run_ret>>

\* the loop is over: "Test completed!"
TestCompleted ==
    /\ prog = "test"
    /\ ipc = "for"
    /\ idx = Len(items)
    /\ ipc' = "end"
    /\ UNCHANGED <<prog, items, idx, processed, happened, tally, manga,
                   collectKept>>

outsideRun == <<retryVars, crawlVars, crawlObs, cancelled, twoVars,
                parseVars, lookupVars, debugVars, fetchVars>>

RunNext ==
    \/ CollectNextQuery /\ UNCHANGED outsideRun
    \/ \E o \in RunOutcomes : SearchManga(o) /\ UNCHANGED outsideRun
    \/ \E o \in RunOutcomes : FetchChapters(o) /\ UNCHANGED outsideRun
    \/ CollectReturns /\ UNCHANGED outsideRun
    \/ \E l \in Queries : GetAllManga(l) /\ UNCHANGED outsideRun
    \/ TestNextManga /\ UNCHANGED outsideRun
    \/ \E o \in TestOutcomes, w \in Messages :
            TestMangaChapters(o, w) /\ UNCHANGED outsideRun
    \/ TestCompleted /\ UNCHANGED outsideRun

SpecRun == RunInit /\ [][RunNext]_vars /\ WF_vars(RunNext)

-----------------------------------------------------------------------------
(* SpecCollect: one call of collect_from_source on a collector that may     *)
(* already hold entries, with any chapters_per_manga >= 0 (a number of      *)
(* chapters) and chapter lists longer than the sample.                      *)

\* a chapter record: one of two distinct mappings, or a value that is none
ChapterKinds == {"a", "b", "not_mapping"}

\* how the request of fetch_chapters can end
ChapterOutcomes ==
    {Returned(Body("list", v)) : v \in SeqsUpTo(ChapterKinds, MaxFetched)}
        \cup {Raised(Exc("HTTPError", 404))}

\* entries an earlier call left in self.collected_data
PriorData == {<<>>, <<Entry("ok", <<"b">>, 1)>>}

CollectInit ==
    /\ prog = "collect"
    /\ items \in {[k \in 1..n |-> k] : n \in 0..MaxQueries}
    /\ ipc = "for"
    /\ idx = 0
    /\ processed = <<>>
    /\ happened = <<>>
    /\ tally = Tally(0, 0, 0)
    /\ chapters_per_manga \in 0..MaxPerManga
    /\ manga = "none"
    /\ prior_data \in PriorData
    /\ collected_data = prior_data
    /\ fetched_lists = <<>>
    /\ run_ret = NotReturned
    /\ test_results = FreshResults
    /\ test_fetch = Pending
    /\ test_ret = NoTest
    /\ RetryIdle
    /\ CrawlIdle
    /\ CancelIdle
    /\ TwoIdle
    /\ ParseIdle
    /\ LookupIdle
    /\ DebugIdle
    /\ FetchIdle

CollectNext ==
    \/ CollectNextQuery /\ UNCHANGED outsideRun
    \/ \E o \in RunOutcomes : SearchManga(o) /\ UNCHANGED outsideRun
    \/ \E o \in ChapterOutcomes : FetchChapters(o) /\ UNCHANGED outsideRun
    \/ CollectReturns /\ UNCHANGED outsideRun

SpecCollect == CollectInit /\ [][CollectNext]_vars

-----------------------------------------------------------------------------
(* The retry policies as the specification words them, for stating the      *)
(* claims independently of the code's own tests                             *)

\* section 4.1: HTTP 429/500/502/503/504, connection errors, timeouts
SpecRetryable(e) ==
    e \in {Exc("HTTPError", s) : s \in {429, 500, 502, 503, 504}}
            \cup {Exc("ConnectionError", 0), Exc("Timeout", 0)}

\* the tester's docstring: "retry logic for 429 errors"
Only429(e) == e = Exc("HTTPError", 429)

PolicyRetryable(i, e) ==
    IF i = "collector" THEN SpecRetryable(e) ELSE Only429(e)

AllRetryable(fs) == \A i \in 1..Len(fs) : PolicyRetryable(impl, fs[i])

Last(s) == s[Len(s)]

\* the sleeps so far are initial_delay, 2*initial_delay, 4*initial_delay, ...
GeometricSleeps ==
    /\ \A j \in 1..Len(slept) : slept[j] = initial_delay * Pow(2, j - 1)
    /\ SumSeq(slept) = initial_delay * (Pow(2, Len(slept)) - 1)

-----------------------------------------------------------------------------
(* Claims about _request_with_retry, checked under Spec *)

\* C1: after k < max_retries failures, all retryable, the invocation has not
\* given up: it has slept k times, the j-th sleep being
\* initial_delay * 2^(j-1) and the total initial_delay * (2^k - 1); either
\* it is about to call again after k calls, or the (k+1)-th call succeeded
\* and its value is what the invocation returns.
C1_SuccessAfterRetries ==
    (Len(failed) < max_retries /\ AllRetryable(failed)) =>
        /\ Len(slept) = Len(failed)
        /\ GeometricSleeps
        /\ \/ rpc = "call" /\ outcome.kind = "pending" /\ calls = Len(failed)
           \/ rpc = "done" /\ outcome.kind = "return" /\ path = "return"
                /\ calls = Len(failed) + 1

\* three retryable failures, then a success: sleeps d, 2d, 4d
C1_Witness ==
    /\ outcome.kind = "return"
    /\ Len(failed) = 3
    /\ AllRetryable(failed)
    /\ SumSeq(slept) = 7 * initial_delay

\* C2: request_func is never invoked more than max_retries times; and when
\* every attempt fails with a retryable failure, the invocation raises
\* exactly when max_retries failures have occurred, after exactly max_retries
\* calls, and what it raises is the failure of the last attempt.
C2_ExhaustsAfterMaxAttempts ==
    /\ calls <= max_retries
    /\ (max_retries >= 1 /\ failed # <<>> /\ AllRetryable(failed)) =>
        /\ outcome.kind = "raise" <=> Len(failed) = max_retries
        /\ outcome.kind = "raise" =>
            /\ rpc = "done"
            /\ calls = max_retries
            /\ outcome = Raised(Last(failed))

\* every attempt of an invocation with max_retries >= 3 failed retryably
C2_Witness ==
    /\ max_retries >= 3
    /\ Len(failed) = max_retries
    /\ AllRetryable(failed)
    /\ outcome.kind = "raise"

\* C3: a terminal failure ends the invocation at once: it is the last
\* failure (every earlier one was retryable), the invocation is over and
\* raises that very failure, no sleep follows it (one sleep per earlier
\* failure only) and no call follows it; on the first attempt that is one
\* call and no sleep.
C3_TerminalImmediate ==
    (\E i \in 1..Len(failed) : ~PolicyRetryable(impl, failed[i])) =>
        /\ AllRetryable(SubSeq(failed, 1, Len(failed) - 1))
        /\ rpc = "done"
        /\ path = "terminal"
        /\ outcome = Raised(Last(failed))
        /\ calls = Len(failed)
        /\ Len(slept) = Len(failed) - 1
        /\ (Len(failed) = 1 => calls = 1 /\ slept = <<>>)

\* a terminal failure on the first attempt, and one after two retries
C3_Witness ==
    /\ path = "terminal"
    /\ Len(failed) \in {1, 3}
    /\ ~PolicyRetryable(impl, Last(failed))
    /\ (Len(failed) = 3 => Len(slept) = 2)

\* C4 as stated: in both classes the failure of the latest attempt is retried
\* (slept on, or counted against the attempts until they are exhausted) if
\* and only if it is an HTTP 429/500/502/503/504, a connection error or a
\* timeout.
C4_SameClassificationEverywhere ==
    (failed # <<>> /\ path # "return") =>
        /\ path \in {"retry", "exhausted"} <=> SpecRetryable(Last(failed))
        /\ path = "terminal" <=> ~SpecRetryable(Last(failed))

\* C4 as amended: the collector retries exactly the failures of section 4.1;
\* the tester retries exactly an HTTP 429 and treats a 5xx response, a
\* connection error and a timeout as terminal (stated of the failure of the
\* latest attempt). A retried failure with attempts left is slept on and
\* followed by another attempt.
C4_ClassificationPerClass ==
    (failed # <<>> /\ path # "return") =>
        /\ path \in {"retry", "exhausted"} <=> PolicyRetryable(impl, Last(failed))
        /\ path = "terminal" <=> ~PolicyRetryable(impl, Last(failed))
        /\ (PolicyRetryable(impl, Last(failed)) /\ Len(failed) < max_retries) =>
            path = "retry" /\ rpc = "call" /\ Len(slept) = Len(failed)

\* the tester ends on a 503 at once; the collector retries a timeout
C4_Witness ==
    \/ /\ impl = "tester"
       /\ failed = <<Exc("HTTPError", 429), Exc("HTTPError", 503)>>
       /\ path = "terminal"
    \/ /\ impl = "collector"
       /\ failed = <<Exc("Timeout", 0)>>
       /\ path = "retry"

-----------------------------------------------------------------------------
(* Claims about get_all_manga, checked under SpecCrawl *)

NoDuplicates(s) == \A i, j \in 1..Len(s) : i # j => s[i] # s[j]

\* C6: for a target count limit >= 0 the returned list has at most limit
\* entries (for a negative limit nothing is fetched and the list is empty).
C6_ReturnAtMostLimit ==
    (cpc = "done" /\ limit >= 0) => Len(ret) <= limit

\* more was accumulated than wanted, and the return cut it down to limit
C6_Witness ==
    /\ cpc = "done"
    /\ limit >= 1
    /\ Len(all_manga) > limit
    /\ Len(ret) = limit

\* C7 as stated: neither the accumulated nor the returned list ever holds
\* the same id twice.
C7_NoDuplicateIds ==
    NoDuplicates(all_manga) /\ NoDuplicates(ret)

\* C8 as stated: in every state of a crawl the accumulated list has at most
\* limit entries.
C8_AccumulatedAtMostLimit ==
    limit >= 0 => Len(all_manga) <= limit

\* C9: the loop is left by "No more results found" or "Reached last page"
\* if and only if a page was received and the last page received was empty
\* or shorter than page_size.
C9_EndOfDataIffShortPage ==
    cpc \in {"return", "done"} =>
        (exit \in {"no_more", "last_page"}
            <=> (fetched >= 1 /\ Len(results) < page_size))

\* a crawl that ended on a short second page, and one that ended on the
\* limit after a full page
C9_Witness ==
    /\ cpc = "done"
    /\ \/ exit = "last_page" /\ fetched = 2 /\ Len(results) \in 1..(page_size - 1)
       \/ exit = "limit" /\ fetched >= 1 /\ Len(results) = page_size

\* C10 as stated: a crawl that stopped because _request_with_retry raised on
\* page N > 1 hands its caller what it had collected from pages 1..N-1 and
\* the failure.
C10_FailureReachesCaller ==
    (cpc = "done" /\ exit = "error" /\ outcome.kind = "raise" /\ fetched >= 1) =>
        /\ ret = all_manga
        /\ crawl_error = caught
        /\ crawl_error # NoError

\* the events of kind k in the log, in order
Events(k) == SelectSeq(log, LAMBDA x : x.ev = k)

\* the number of search_all_manga invocations among the first i events
FetchesUpTo(i) == Len(SelectSeq(SubSeq(log, 1, i), LAMBDA x : x.ev = "fetch"))

RECURSIVE Flatten(_)
Flatten(ps) == IF ps = <<>> THEN <<>> ELSE Head(ps) \o Flatten(Tail(ps))

IsPrefix(s, t) == Len(s) <= Len(t) /\ s = SubSeq(t, 1, Len(s))

\* C11: the pages asked of search_all_manga are 1, 2, 3, ... in that order;
\* every request_func call made between the invocation for page N and the
\* next one is for page N; and an invocation for page N is made only when
\* the results of pages 1..N-1 have all been received and used (while it is
\* in progress exactly N-1 pages have been received, and at any other time
\* no invocation is outstanding except one that failed).
C11_PagesInOrder ==
    /\ \A i \in 1..Len(Events("fetch")) : Events("fetch")[i].n = i
    /\ \A i \in 1..Len(log) : log[i].ev = "call" => log[i].n = FetchesUpTo(i)
    /\ cpc = "fetch" => Len(Events("fetch")) = fetched + 1 /\ page = fetched + 1
    /\ cpc = "loop" => Len(Events("fetch")) = fetched
    /\ cpc \in {"return", "done"} =>
        Len(Events("fetch")) = fetched + (IF exit = "error" THEN 1 ELSE 0)

\* page 2 is being fetched after page 1 needed a retry
C11_Witness ==
    /\ cpc = "fetch"
    /\ Events("fetch") = <<Event("fetch", 1), Event("fetch", 2)>>
    /\ Len(Events("call")) >= 3
    /\ Len(Events("retry_sleep")) >= 1

\* C12: every invocation of search_all_manga after the first comes right
\* after a pacing sleep, whether or not retry sleeps were made during the
\* fetch before it; so between two consecutive page fetches there is always
\* a pacing sleep, and as many pacing sleeps were made as full pages received.
C12_PacingBetweenFetches ==
    /\ \A i \in 1..Len(log) :
        (log[i].ev = "fetch" /\ log[i].n > 1) => (i > 1 /\ log[i - 1].ev = "pace")
    /\ Len(Events("pace")) = pacing
    /\ cpc \in {"loop", "fetch"} => pacing = fetched

\* page 2 is fetched after a pacing sleep although page 1 slept for a retry,
\* and page 2 sleeps for a retry as well
C12_Witness ==
    /\ Len(log) >= 7
    /\ SubSeq(log, 1, 5) = <<Event("fetch", 1), Event("call", 1),
                             Event("retry_sleep", DefaultInitialDelay),
                             Event("call", 1), Event("pace", 0)>>
    /\ log[6] = Event("fetch", 2)
    /\ log[Len(log)].ev = "retry_sleep"

\* C19: the accumulated list is the concatenation, in the order received, of
\* the pages received (a short last page included), and the returned list is
\* a prefix of it: its first limit entries, or all when there are fewer.
C19_InsertionOrder ==
    /\ all_manga = Flatten(received)
    /\ cpc = "done" =>
        /\ IsPrefix(ret, Flatten(received))
        /\ limit >= 0 => Len(ret) = Min(limit, Len(Flatten(received)))
    /\ (cpc = "done" /\ exit = "last_page" /\ limit >= Len(all_manga)) =>
        ret = Flatten(received)

\* a full page and then a short one with another id, returned whole
C19_Witness ==
    /\ cpc = "done"
    /\ exit = "last_page"
    /\ Len(received) = 2
    /\ ret = received[1] \o received[2]
    /\ ret[1] # ret[Len(ret)]

-----------------------------------------------------------------------------
(* Claim about cancellation, checked under SpecCancel *)

\* C16 as stated: once cancellation is signalled no further page is
\* requested, no further call is issued and no further sleep (retry or
\* pacing) is started.
C16_NothingAfterCancel ==
    [][cancelled => log' = log]_vars

-----------------------------------------------------------------------------
(* Claim about interleaved invocations, checked under SpecTwo *)

\* what invocation i does when it runs alone, given the number k of
\* retryable failures it has slept after: its sleeps and its locals
AloneSleeps(i, k) == [j \in 1..k |-> inv[i].initial_delay * Pow(2, j - 1)]
AloneDelay(i, k) == inv[i].initial_delay * Pow(2, k)

\* C18: an invocation keeps no state between or across invocations; two
\* interleaved invocations on the same object behave each as if alone: the
\* sleeps of each are the geometric sequence of its own initial_delay, one
\* per failure it was retried after, its calls never exceed its own
\* max_retries, and the attempt counter and delay it reads are its own.
C18_InvocationsIndependent ==
    \A i \in Invocations :
        inv[i].rpc # "idle" =>
            LET k == Len(inv[i].slept) IN
            /\ inv[i].slept = AloneSleeps(i, k)
            /\ inv[i].calls <= inv[i].max_retries
            /\ inv[i].calls = k + (IF inv[i].rpc = "done" THEN 1 ELSE 0)
            /\ frame[FrameOf(i)].attempt = k
            /\ frame[FrameOf(i)].delay = AloneDelay(i, k)
            /\ (inv[i].outcome.kind = "raise"
                    /\ Retryable(inv[i].impl, inv[i].outcome.error))
                => inv[i].calls = inv[i].max_retries

\* both invocations were retried while the other was in progress, with
\* different arguments, and both are over: one returned, one gave up
C18_Witness ==
    /\ inv[1].rpc = "done" /\ inv[2].rpc = "done"
    /\ inv[1].initial_delay # inv[2].initial_delay
    /\ inv[1].max_retries # inv[2].max_retries
    /\ Len(inv[1].slept) >= 2 /\ Len(inv[2].slept) >= 1
    /\ inv[1].outcome.kind = "return"
    /\ inv[2].outcome.kind = "raise"
    /\ inv[2].calls = inv[2].max_retries

-----------------------------------------------------------------------------
(* Claim about the pattern loop, checked under SpecParse *)

\* the patterns that match the title
Matching == {i \in 1..NumPatterns : PatternMatch(i, title).ok}

\* the keyword form: a keyword, then a number, somewhere in the title
HasKeywordNumber ==
    \E k \in 1..Len(title) :
        /\ title[k] \in {"Chapter", "Ch"}
        /\ \E n \in (k + 1)..Len(title) :
            /\ IsDigit(title[n])
            /\ \A m \in (k + 1)..(n - 1) : title[m] \in {".", " "}

\* C13: the patterns are tried in the order keyword form, leading number
\* with separator, bare number; the result is the number captured by the
\* first pattern that matches, whatever later patterns would capture; when
\* no pattern matches the result is "unresolved", which is no number (0
\* included).
C13_FirstPatternWins ==
    ppc = "done" =>
        /\ Matching = {} => parsed = NoMatch
        /\ Matching # {} =>
            LET i == CHOOSE m \in Matching : \A n \in Matching : m <= n
                g == PatternMatch(i, title)
            IN  /\ parsed.pattern = i
                /\ parsed.num = FloatOfGroup(title, g.from, g.to)
                /\ parsed.num.whole >= 0
                /\ parsed.num # NoNumber
        /\ parsed.pattern = 1 => HasKeywordNumber
        /\ parsed.pattern \in {2, 3} => IsDigit(title[1]) /\ ~KeywordForm(title).ok
        /\ parsed.pattern = 3 => \A k \in 1..Len(title) : title[k] \in DOMAIN DigitValue \cup {".", " "}
        /\ parsed = NoMatch <=> parsed.num = NoNumber
        /\ title = test_titles[1] => parsed.num = FloatOfInt(1)
        /\ title = test_titles[4] => parsed.num = FloatOfInt(1165)

\* a title that the separator form reads as 2 and the keyword form as 1 was
\* resolved to 1
C13_Witness ==
    /\ ppc = "done"
    /\ title = <<"2", "-", "Ch", "1">>
    /\ SeparatorForm(title).ok
    /\ parsed = [pattern |-> 1, num |-> FloatOfInt(1)]

-----------------------------------------------------------------------------
(* Claim about the lookup loop, checked under SpecLookup *)

\* the entries whose resolved number (first matching pattern) is n
ResolvedTo(n) ==
    {k \in 1..Len(titles) : ExtractNumber(titles[k]).num = FloatOfInt(n)}

\* C14 as stated: each lookup returns the first entry in list order whose
\* resolved number (the number of its first matching pattern) equals the
\* requested number, and not-found exactly when no entry resolves to it.
C14_LookupByResolvedNumber ==
    \A r \in 1..Len(lookups) :
        LET S == ResolvedTo(requested_chapters[r])
        IN  lookups[r] = IF S = {} THEN 0
                         ELSE CHOOSE k \in S : \A l \in S : k <= l

-----------------------------------------------------------------------------
(* Claim about the chapter search, checked under SpecDebug *)

\* C15 as stated: a chapter record with a numeric number field is found
\* for a requested number only if that field equals it; its title is not
\* consulted.
C15_NumberFieldDecides ==
    \A r \in 1..Len(founds) :
        \A k \in 1..Len(founds[r]) :
            founds[r][k].number # NoField
                => founds[r][k].number = search_nums[r]

-----------------------------------------------------------------------------
(* Claim about the collector's fetch operations, checked under SpecFetch *)

\* what the caller receives from a successful fetch of zero records
ZeroRecordOutcomes ==
    {OpResult(Returned(b)) : b \in {c \in Bodies : c.shape # "not_json"
                                                    /\ Records(c) = <<>>}}

\* C17 as stated: when the wrapped request of a fetch operation ends in a
\* failure (terminal, or retries exhausted), the caller receives an outcome
\* that no successful fetch of zero records produces.
C17_FailureDistinguishable ==
    (fpc = "done" /\ outcome.kind = "raise")
        => fetch_ret \notin ZeroRecordOutcomes

-----------------------------------------------------------------------------
(* Claim about the loops over the items, checked under SpecRun *)

-----------------------------------------------------------------------------
(* Claim about the sleeps of one invocation, checked under SpecLive *)

\* the failed attempts so far that another attempt follows or will follow:
\* all of them, but the last one of an invocation that raised
FollowedFailures ==
    IF outcome.kind = "raise" THEN Len(failed) - 1 ELSE Len(failed)

\* C21: there is one retry sleep per failed attempt that is followed by
\* another attempt and none after the last permitted attempt: an
\* invocation that exhausts max_retries slept exactly max_retries - 1
\* times, and after every sleep another call is permitted and is made.
C21_NoSleepAfterLastAttempt ==
    /\ [](/\ outcome.kind = "raise" => failed # <<>>
          /\ Len(slept) = FollowedFailures
          /\ slept # <<>> => Len(slept) <= max_retries - 1
          /\ (outcome.kind = "raise" /\ AllRetryable(failed))
                => Len(slept) = max_retries - 1
          /\ (slept # <<>> /\ calls = Len(slept))
                => (rpc = "call" /\ calls < max_retries))
    /\ \A k \in 1..MaxRetries : (Len(slept) = k) ~> (calls > k)

\* an invocation with max_retries = 3 failed retryably three times: two
\* sleeps, the second followed by the third call, none after it
C21_Witness ==
    /\ max_retries = 3
    /\ rpc = "done"
    /\ path = "exhausted"
    /\ calls = 3
    /\ Len(slept) = 2

-----------------------------------------------------------------------------
(* Claim about collect_from_source, checked under SpecCollect *)

\* the entries appended during the call
Appended == SubSeq(collected_data, Len(prior_data) + 1, Len(collected_data))

\* the iterations so far that ended with `why`
Ended(why) == Len(SelectSeq(happened, LAMBDA h : h = why))

\* C22: collect_from_source returns the number of entries it appended to
\* collected_data during the call; entries held before stay, and a query
\* that ends with no results, no id, no chapters (or an exception) appends
\* nothing; every appended entry has at most chapters_per_manga sample
\* chapters, indexed 1..n, which are the first chapters of the fetched list
\* in its order, and total_chapters is the length of that list.
C22_ReturnCountsAppended ==
    /\ Len(collected_data) >= Len(prior_data)
    /\ SubSeq(collected_data, 1, Len(prior_data)) = prior_data
    /\ Len(Appended) = Ended("collected")
    /\ Len(Appended) = Len(fetched_lists)
    /\ Len(happened) = Len(Appended) + Ended("no_results") + Ended("no_id")
                        + Ended("no_chapters") + Ended("exception")
    /\ ipc = "end" <=> run_ret # NotReturned
    /\ ipc = "end" => run_ret = Len(Appended)
    /\ \A j \in 1..Len(Appended) :
        LET e == Appended[j]
            l == fetched_lists[j]
        IN  /\ Len(e.sample_chapters) <= chapters_per_manga
            /\ Len(e.sample_chapters) <= Len(l)
            /\ e.total_chapters = Len(l)
            /\ \A i \in 1..Len(e.sample_chapters) :
                /\ e.sample_chapters[i].index = i
                /\ e.sample_chapters[i].chapter = l[i]

\* a call on a collector that held one entry: the first query found no
\* chapters, the second appended an entry sampling one of two chapters
C22_Witness ==
    /\ ipc = "end"
    /\ Len(prior_data) = 1
    /\ happened = <<"no_chapters", "collected">>
    /\ run_ret = 1
    /\ Len(collected_data) = 2
    /\ collected_data[2].total_chapters = 2
    /\ Len(collected_data[2].sample_chapters) = 1
    /\ fetched_lists = <<<<"a", "b">>>>

-----------------------------------------------------------------------------
(* Claim about the end of a crawl, checked under SpecCrawlLive *)

CeilDiv(a, b) == (a + b - 1) \div b

\* the page fetches so far: invocations of search_all_manga
PageFetches == Len(Events("fetch"))

\* C23: a crawl whose page fetches all return comes to its end; it fetches
\* no page when limit <= 0 and at most ceil(limit / page_size) pages
\* otherwise, since every fetch before the last one added a full page.
C23_CrawlTerminates ==
    /\ [](/\ limit <= 0 => PageFetches = 0
          /\ limit > 0 => PageFetches <= CeilDiv(limit, page_size)
          /\ \A i \in 1..(Len(received) - 1) : Len(received[i]) = page_size
          /\ (cpc = "loop" /\ exit = "none")
                => Len(all_manga) = PageFetches * page_size)
    /\ <>(cpc = "done")

\* a crawl with a limit that is no multiple of page_size took
\* ceil(limit / page_size) full pages, retried on the way, and ended
C23_Witness ==
    /\ cpc = "done"
    /\ limit = page_size + 1
    /\ exit = "limit"
    /\ PageFetches = 2
    /\ Len(Events("retry_sleep")) >= 1

-----------------------------------------------------------------------------
(* Claims about run_test and test_manga_chapters, checked under SpecRun *)

RECURSIVE SumOver(_, _)
SumOver(f, S) ==
    IF S = {} THEN 0
    ELSE LET x == CHOOSE y \in S : TRUE
         IN  Len(f[x]) + SumOver(f, S \ {x})

\* C24: after any number of manga processed by run_test, total = success
\* + failed, zero_chapters <= failed, successful_manga and failed_manga
\* have success and failed entries, the lists of errors hold failed
\* entries in all, and zero_chapters is the length of the list of the
\* zero-chapters reason.
C24_CountersConsistent ==
    LET r == test_results IN
    /\ r.total = r.success + r.failed
    /\ r.zero_chapters <= r.failed
    /\ Len(r.successful_manga) = r.success
    /\ Len(r.failed_manga) = r.failed
    /\ SumOver(r.errors, DOMAIN r.errors) = r.failed
    /\ r.zero_chapters = Len(r.errors["zero_chapters"])
    /\ (prog = "test" /\ ipc \in {"for", "end"}) => r.total = idx

\* three manga were processed: one succeeded, one had an empty response,
\* one had zero chapters
C24_Witness ==
    /\ prog = "test"
    /\ ipc = "end"
    /\ test_results.total = 3
    /\ test_results.success = 1
    /\ test_results.zero_chapters = 1
    /\ Len(test_results.errors["empty_response"]) = 1

\* C25: test_manga_chapters never raises, whatever way the chapter fetch
\* failed; in the tuple it returns, success holds iff chapter_count > 0,
\* error_reason is empty iff success holds, and chapter_count is 0
\* whenever success does not hold.
C25_TupleAlwaysReturned ==
    test_fetch # Pending =>
        /\ ~test_ret.raised
        /\ test_ret.success <=> test_ret.count > 0
        /\ test_ret.reason = "" <=> test_ret.success
        /\ ~test_ret.success => test_ret.count = 0
        /\ test_fetch.kind = "raise" => ~test_ret.success
        /\ (test_fetch.kind = "return" /\ ~test_ret.success)
                => test_fetch.value.anchors = 0

\* the chapter fetch gave up on 429 and the test returned a failure tuple
C25_Witness ==
    /\ test_fetch = Raised(Exc("HTTPError", 429))
    /\ test_ret = TestTuple(FALSE, "rate_limit", 0)
    /\ test_results.failed >= 1

-----------------------------------------------------------------------------
(* Claim about the ways _request_with_retry ends, checked under Spec *)

\* the failure raised by the last call made
LastFailure == failed[Len(failed)]

\* C26: for every max_retries >= 1, _request_with_retry calls request_func
\* at least once before it ends, and it ends only by returning the value
\* of a successful call or by raising the failure of its last attempt; the
\* loop never runs out, so the raise after it is never reached and the
\* function never ends without a value (an implicit None).
C26_EndsByReturnOrLastFailure ==
    max_retries >= 1 =>
        /\ attempt < max_retries
        /\ path # "fallthrough"
        /\ outcome.kind # "none"
        /\ rpc = "done" =>
            /\ calls >= 1
            /\ calls = attempt + 1
            /\ \/ /\ outcome.kind = "return"
                  /\ path = "return"
                  /\ Len(failed) = calls - 1
               \/ /\ outcome.kind = "raise"
                  /\ path \in {"exhausted", "terminal"}
                  /\ Len(failed) = calls
                  /\ outcome.error = LastFailure

\* the collector gave up after two attempts that failed differently, and
\* raised the second failure
C26_Witness ==
    /\ impl = "collector"
    /\ max_retries = 2
    /\ rpc = "done"
    /\ calls = 2
    /\ failed = <<Exc("HTTPError", 503), Exc("ConnectionError", 0)>>
    /\ outcome = Raised(Exc("ConnectionError", 0))

=============================================================================
